---- MODULE Spec2Model ----
(***************************************************************************)
(* Model of the video job lifecycle of server.py: generate_video,          *)
(* get_video_status and get_all_videos over the video_generations          *)
(* collection.                                                             *)
(*                                                                         *)
(* Every await of generate_video is a step of its own, so concurrent       *)
(* calls interleave exactly where the coroutine can be suspended.  A write *)
(* to the collection either is applied and returns, or raises and is not   *)
(* applied (single-record atomicity of the store).  Reads do not fail.     *)
(* Optional values are sequences: None is <<>> and a value v is <<v>>.     *)
(***************************************************************************)
EXTENDS Integers, Sequences, FiniteSets, TLC

\* Number of generate_video requests in a behaviour.
MaxCalls == 2
\* Largest value of the wall clock (datetime.utcnow).
MaxClock == 1
\* Largest explicit limit passed to get_all_videos.
MaxLimit == 1

None == <<>>
Some(v) == <<v>>

Calls == 1..MaxCalls

\* ---------------------------------------------------------------------
\* Requests and their validation (VideoRequest)
\* ---------------------------------------------------------------------

\* JSON values of the "prompt" and "duration" members of a request body.
Absent == [absent |-> TRUE]
Null == [null |-> TRUE]
JsonInt(n) == [int |-> n]
JsonStr(s) == [str |-> s]

\* The request bodies sent: a plain one, and the malformed ones of
\* test_error_handling (empty prompt, missing prompt, invalid duration
\* type, negative duration), and a null duration.
Payloads ==
    {[prompt |-> JsonStr("A beautiful sunset"), duration |-> Absent],
     [prompt |-> JsonStr(""),                   duration |-> JsonInt(5)],
     [prompt |-> Absent,                        duration |-> JsonInt(5)],
     [prompt |-> JsonStr("Test video"),         duration |-> JsonStr("invalid")],
     [prompt |-> JsonStr("Test video"),         duration |-> JsonInt(-5)],
     [prompt |-> JsonStr("Test video"),         duration |-> Null]}

\* VideoRequest.prompt : str -- any string, the empty one included.
PromptAccepted(p) == "str" \in DOMAIN p

\* VideoRequest.duration : Optional[int] = 5
DurationAccepted(d) == ("absent" \in DOMAIN d) \/ ("null" \in DOMAIN d) \/ ("int" \in DOMAIN d)

VideoRequestValid(payload) ==
    PromptAccepted(payload.prompt) /\ DurationAccepted(payload.duration)

DefaultDuration == 5

\* The parsed VideoRequest of a payload that passed validation.
VideoRequest(payload) ==
    [prompt   |-> payload.prompt.str,
     duration |-> IF "absent" \in DOMAIN payload.duration THEN Some(DefaultDuration)
                  ELSE IF "null" \in DOMAIN payload.duration THEN None
                  ELSE Some(payload.duration.int)]

\* VideoGeneration.duration : int -- None is refused by the model class.
VideoGenerationValid(request) == request.duration # None

\* ---------------------------------------------------------------------
\* Records of the video_generations collection (VideoGeneration)
\* ---------------------------------------------------------------------

\* VideoGeneration(prompt=..., duration=...): id from uuid4, created_at from
\* utcnow, status "processing", the optional fields None.
VideoGeneration(id, request, t) ==
    [id            |-> id,
     prompt        |-> request.prompt,
     duration      |-> request.duration[1],
     status        |-> "processing",
     video_url     |-> None,
     error_message |-> None,
     created_at    |-> t,
     completed_at  |-> None]

demo_video_url == "https://commondatastorage.googleapis.com/gtv-videos-bucket/sample/BigBuckBunny.mp4"

DemoModeNote == "Demo mode - using sample video (FAL_KEY not provided)"

NoUrlError == "No video URL returned from fal.ai"

FalSubmitError == "fal.ai submit failed"
FalResultError == "fal.ai request failed"
StoreError == "store write failed"

\* f"FAL.AI error, using demo: {str(fal_error)}"
FallbackMessage(fal_error) == "FAL.AI error, using demo: " \o fal_error

\* Mutant: the demo-mode update leaves the record processing.
DemoSetProcessing(t) ==
    [status        |-> "processing",
     video_url     |-> Some(demo_video_url),
     completed_at  |-> Some(t),
     error_message |-> Some(DemoModeNote)]

\* The $set document of the demo-mode update.
DemoSet(t) ==
    [status        |-> "completed",
     video_url     |-> Some(demo_video_url),
     completed_at  |-> Some(t),
     error_message |-> Some(DemoModeNote)]

\* Mutant: the update after a provider success stores the demo URL.
SuccessSetDemo(url, t) ==
    [status       |-> "completed",
     video_url    |-> Some(demo_video_url),
     completed_at |-> Some(t)]

\* The $set document of the update after a provider success.
SuccessSet(url, t) ==
    [status       |-> "completed",
     video_url    |-> Some(url),
     completed_at |-> Some(t)]

\* Mutant: a provider error marks the record failed.
FallbackSetFailed(fal_error, t) ==
    [status        |-> "failed",
     error_message |-> Some(fal_error),
     completed_at  |-> Some(t)]

\* The $set document of the fallback update after a provider error.
FallbackSet(fal_error, t) ==
    [status        |-> "completed",
     video_url     |-> Some(demo_video_url),
     completed_at  |-> Some(t),
     error_message |-> Some(FallbackMessage(fal_error))]

\* Mutant: the update of the outer handler without the error message.
FailedSetNoMessage(e, t) ==
    [status       |-> "failed",
     completed_at |-> Some(t)]

\* Mutant: the update of the outer handler without the status.
FailedSetNoStatus(e, t) ==
    [error_message |-> Some(e),
     completed_at  |-> Some(t)]

\* The $set document of the update in the outer exception handler.
FailedSet(e, t) ==
    [status        |-> "failed",
     error_message |-> Some(e),
     completed_at  |-> Some(t)]

\* $set: the named fields are overwritten, the others kept.
ApplySet(doc, set) ==
    [f \in DOMAIN doc |-> IF f \in DOMAIN set THEN set[f] ELSE doc[f]]

\* insert_one(doc)
InsertOne(coll, doc) == coll \cup {doc}

\* Mutant: the update without its filter, applied to every document.
UpdateOneNoFilter(coll, id, set) == {ApplySet(doc, set) : doc \in coll}

\* Mutant: the update is not applied.
UpdateOneLost(coll, id, set) == coll

\* update_one({"id": id}, {"$set": set}); ids are unique in the collection.
UpdateOne(coll, id, set) ==
    {IF doc.id = id THEN ApplySet(doc, set) ELSE doc : doc \in coll}

\* Mutant: find_one without its filter, any document of the collection.
FindOneNoFilter(coll, id) ==
    IF coll # {} THEN Some(CHOOSE doc \in coll : TRUE) ELSE None

\* find_one({"id": id}): the document, or None.
FindOne(coll, id) ==
    IF \E doc \in coll : doc.id = id
    THEN Some(CHOOSE doc \in coll : doc.id = id)
    ELSE None

\* ---------------------------------------------------------------------
\* Responses
\* ---------------------------------------------------------------------

\* VideoResponse(id, prompt, status, video_url, created_at)
VideoResponse(id, prompt, status, video_url, created_at) ==
    [code       |-> 200,
     id         |-> id,
     prompt     |-> prompt,
     status     |-> status,
     video_url  |-> video_url,
     created_at |-> created_at]

\* The VideoResponse built from a stored document.
ResponseOf(video) ==
    VideoResponse(video.id, video.prompt, video.status, video.video_url, video.created_at)

\* HTTPException(status_code, detail)
HTTPException(code, detail) == [code |-> code, detail |-> Some(detail)]

\* Request body refused by the framework's validation of VideoRequest.
ValidationRejected == [code |-> 422, detail |-> None]

\* An exception that leaves the handler unhandled: plain 500.
UnhandledError == [code |-> 500, detail |-> None]

\* The call has not answered yet.
Pending == [code |-> 0]

\* No read was answered by the last step.
NoResponse == [op |-> "none"]

\* ---------------------------------------------------------------------
\* The provider (fal_client)
\* ---------------------------------------------------------------------

ProviderUrl == "https://fal.media/files/video.mp4"

\* Results of handler.get().
Results ==
    {[video |-> None],
     [video |-> Some([url |-> None])],
     [video |-> Some([url |-> Some("")])],
     [video |-> Some([url |-> Some(ProviderUrl)])]}

\* result.get("video", {}).get("url") if result.get("video") else None
ExtractUrl(result) ==
    IF result.video = None THEN None ELSE result.video[1].url

\* if video_url:
Truthy(v) == v # None /\ v # Some("")

\* Values of os.environ.get('FAL_KEY').
FalKeys == {None, Some("fal-key")}


\* if not fal_key:
NotFalKey(k) == k = None \/ k = Some("")

\* ---------------------------------------------------------------------
\* get_video_status and get_all_videos as functions of the collection
\* ---------------------------------------------------------------------

\* Ids a client may ask for: the ids uuid4 hands out and one it never does.
InvalidId == 0
VideoIds == Calls \cup {InvalidId}

get_video_status(coll, video_id) ==
    LET video == FindOne(coll, video_id)
    IN  IF video = None
        THEN HTTPException(404, "Video not found")
        ELSE ResponseOf(video[1])

DefaultLimit == 10

\* The limit query parameter: absent (the default applies) or 0..MaxLimit.
LimitValues == {[absent |-> TRUE]} \cup {[int |-> n] : n \in 0..MaxLimit}

LimitOf(limit) == IF "absent" \in DOMAIN limit THEN DefaultLimit ELSE limit.int

\* Mutant: the sort direction is ignored and the order is ascending.
InSortOrderAscending(a, b, direction) == a <= b

\* sort(field, -1): descending; equal keys come in any order.
InSortOrder(a, b, direction) == IF direction = -1 THEN a >= b ELSE a <= b

\* find().sort("created_at", -1): every listing of the collection, each
\* document once, that the sort admits.
SortByCreatedAt(coll) ==
    LET n == Cardinality(coll)
    IN  {s \in [1..n -> coll] :
            /\ \A i, j \in 1..n : i # j => s[i] # s[j]
            /\ \A i \in 1..n : i < n =>
                   InSortOrder(s[i].created_at, s[i + 1].created_at, -1)}

\* .limit(limit).to_list(limit): the first limit documents of the cursor.
ToList(s, limit) == SubSeq(s, 1, IF limit < Len(s) THEN limit ELSE Len(s))

\* The lists get_all_videos may return for this collection and limit.
get_all_videos(coll, limit) ==
    {[i \in 1..Len(ToList(s, LimitOf(limit))) |-> ResponseOf(s[i])] :
        s \in SortByCreatedAt(coll)}

\* ---------------------------------------------------------------------
\* State
\* ---------------------------------------------------------------------

VARIABLES
    now,                \* datetime.utcnow()
    fal_key,            \* os.environ.get('FAL_KEY')
    video_generations,  \* db.video_generations
    pc,                 \* where each generate_video call stands
    request,            \* its VideoRequest
    video_gen,          \* its VideoGeneration object
    video_url,          \* its local video_url
    error,              \* str() of the exception it is handling
    response,           \* what it answered
    provider,           \* history: what the provider did for it
    writes,             \* history: the store writes it issued, in order
    read                \* response of the last request, if it was a read

vars == <<now, fal_key, video_generations, pc, request, video_gen, video_url,
          error, response, provider, writes, read>>

Init ==
    /\ now = 0
    /\ fal_key \in FalKeys
    /\ video_generations = {}
    /\ pc = [c \in Calls |-> "idle"]
    /\ request = [c \in Calls |-> None]
    /\ video_gen = [c \in Calls |-> None]
    /\ video_url = [c \in Calls |-> None]
    /\ error = [c \in Calls |-> None]
    /\ response = [c \in Calls |-> Pending]
    /\ provider = [c \in Calls |-> "not called"]
    /\ writes = [c \in Calls |-> <<>>]
    /\ read = NoResponse

\* One issued store write: which statement, and whether it was applied.
Write(op, ok) == [op |-> op, ok |-> ok]

\* The wall clock advances.
Tick ==
    /\ now < MaxClock
    /\ now' = now + 1
    /\ read' = NoResponse
    /\ UNCHANGED <<fal_key, video_generations, pc, request, video_gen, video_url,
                   error, response, provider, writes>>

\* POST /generate-video arrives: the body is validated into a VideoRequest
\* and the VideoGeneration object is built (lines 61-66).
Receive(c) ==
    /\ pc[c] = "idle"
    /\ \A d \in Calls : d < c => pc[d] # "idle"
    /\ \E payload \in Payloads :
        IF ~VideoRequestValid(payload)
        THEN /\ pc' = [pc EXCEPT ![c] = "rejected"]
             /\ response' = [response EXCEPT ![c] = ValidationRejected]
             /\ UNCHANGED <<request, video_gen>>
        ELSE IF ~VideoGenerationValid(VideoRequest(payload))
        THEN /\ pc' = [pc EXCEPT ![c] = "raised"]
             /\ response' = [response EXCEPT ![c] = UnhandledError]
             /\ request' = [request EXCEPT ![c] = Some(VideoRequest(payload))]
             /\ UNCHANGED video_gen
        ELSE /\ pc' = [pc EXCEPT ![c] = "insert"]
             /\ request' = [request EXCEPT ![c] = Some(VideoRequest(payload))]
             /\ video_gen' = [video_gen EXCEPT
                                 ![c] = Some(VideoGeneration(c, VideoRequest(payload), now))]
             /\ UNCHANGED response
    /\ read' = NoResponse
    /\ UNCHANGED <<now, fal_key, video_generations, video_url, error, provider, writes>>

\* await db.video_generations.insert_one(video_gen.dict()) (line 69), then
\* the FAL_KEY test (lines 73-74).  The insert is outside the try.
Insert(c) ==
    /\ pc[c] = "insert"
    /\ \E ok \in BOOLEAN :
        /\ writes' = [writes EXCEPT ![c] = Append(@, Write("insert", ok))]
        /\ IF ok
           THEN /\ video_generations' = InsertOne(video_generations, video_gen[c][1])
                /\ pc' = [pc EXCEPT ![c] = IF NotFalKey(fal_key) THEN "sleep" ELSE "submit"]
                /\ UNCHANGED response
           ELSE /\ pc' = [pc EXCEPT ![c] = "raised"]
                /\ response' = [response EXCEPT ![c] = UnhandledError]
                /\ UNCHANGED video_generations
    /\ read' = NoResponse
    /\ UNCHANGED <<now, fal_key, request, video_gen, video_url, error, provider>>

\* await asyncio.sleep(2) (line 77)
Sleep(c) ==
    /\ pc[c] = "sleep"
    /\ pc' = [pc EXCEPT ![c] = "demo_update"]
    /\ read' = NoResponse
    /\ UNCHANGED <<now, fal_key, video_generations, request, video_gen, video_url,
                   error, response, provider, writes>>

\* The demo-mode update (lines 81-91) and the return (lines 93-99); an
\* exception of the update is caught by the outer handler (line 163).
DemoUpdate(c) ==
    /\ pc[c] = "demo_update"
    /\ \E ok \in BOOLEAN :
        /\ writes' = [writes EXCEPT ![c] = Append(@, Write("demo_update", ok))]
        /\ IF ok
           THEN /\ video_generations' =
                       UpdateOne(video_generations, video_gen[c][1].id, DemoSet(now))
                /\ response' = [response EXCEPT ![c] =
                       VideoResponse(video_gen[c][1].id, request[c][1].prompt, "completed",
                                     Some(demo_video_url), video_gen[c][1].created_at)]
                /\ pc' = [pc EXCEPT ![c] = "returned"]
                /\ UNCHANGED error
           ELSE /\ error' = [error EXCEPT ![c] = Some(StoreError)]
                /\ pc' = [pc EXCEPT ![c] = "failed_update"]
                /\ UNCHANGED <<video_generations, response>>
    /\ read' = NoResponse
    /\ UNCHANGED <<now, fal_key, request, video_gen, video_url, provider>>

\* handler = await fal_client.submit_async(...) (lines 104-110); an
\* exception is caught by the inner handler (line 139).
Submit(c) ==
    /\ pc[c] = "submit"
    /\ \E ok \in BOOLEAN :
        IF ok
        THEN /\ pc' = [pc EXCEPT ![c] = "get"]
             /\ UNCHANGED <<error, provider>>
        ELSE /\ error' = [error EXCEPT ![c] = Some(FalSubmitError)]
             /\ provider' = [provider EXCEPT ![c] = "submit raised"]
             /\ pc' = [pc EXCEPT ![c] = "fallback_update"]
    /\ read' = NoResponse
    /\ UNCHANGED <<now, fal_key, video_generations, request, video_gen, video_url,
                   response, writes>>

\* result = await handler.get() and the extraction of the URL (lines
\* 112-116, 136-137).
Get(c) ==
    /\ pc[c] = "get"
    /\ \/ /\ error' = [error EXCEPT ![c] = Some(FalResultError)]
          /\ provider' = [provider EXCEPT ![c] = "get raised"]
          /\ pc' = [pc EXCEPT ![c] = "fallback_update"]
          /\ UNCHANGED video_url
       \/ \E result \in Results :
            IF Truthy(ExtractUrl(result))
            THEN /\ video_url' = [video_url EXCEPT ![c] = ExtractUrl(result)]
                 /\ provider' = [provider EXCEPT ![c] = "url"]
                 /\ pc' = [pc EXCEPT ![c] = "success_update"]
                 /\ UNCHANGED error
            ELSE /\ video_url' = [video_url EXCEPT ![c] = ExtractUrl(result)]
                 /\ error' = [error EXCEPT ![c] = Some(NoUrlError)]
                 /\ provider' = [provider EXCEPT ![c] = "no url"]
                 /\ pc' = [pc EXCEPT ![c] = "fallback_update"]
    /\ read' = NoResponse
    /\ UNCHANGED <<now, fal_key, video_generations, request, video_gen, response, writes>>

\* The update after a provider success (lines 118-127) and the return
\* (lines 129-135).  The update is inside the inner try: its exception is
\* caught at line 139 as fal_error.
SuccessUpdate(c) ==
    /\ pc[c] = "success_update"
    /\ \E ok \in BOOLEAN :
        /\ writes' = [writes EXCEPT ![c] = Append(@, Write("success_update", ok))]
        /\ IF ok
           THEN /\ video_generations' =
                       UpdateOne(video_generations, video_gen[c][1].id,
                                 SuccessSet(video_url[c][1], now))
                /\ response' = [response EXCEPT ![c] =
                       VideoResponse(video_gen[c][1].id, request[c][1].prompt, "completed",
                                     video_url[c], video_gen[c][1].created_at)]
                /\ pc' = [pc EXCEPT ![c] = "returned"]
                /\ UNCHANGED error
           ELSE /\ error' = [error EXCEPT ![c] = Some(StoreError)]
                /\ pc' = [pc EXCEPT ![c] = "fallback_update"]
                /\ UNCHANGED <<video_generations, response>>
    /\ read' = NoResponse
    /\ UNCHANGED <<now, fal_key, request, video_gen, video_url, provider>>

\* Mutant: the inner handler without its return, so that the outer
\* handler's update follows the applied fallback update.
FallbackUpdateNoReturn(c) ==
    /\ pc[c] = "fallback_update"
    /\ \E ok \in BOOLEAN :
        /\ writes' = [writes EXCEPT ![c] = Append(@, Write("fallback_update", ok))]
        /\ IF ok
           THEN video_generations' =
                    UpdateOne(video_generations, video_gen[c][1].id,
                              FallbackSet(error[c][1], now))
           ELSE UNCHANGED video_generations
        /\ error' = [error EXCEPT ![c] = Some(StoreError)]
        /\ pc' = [pc EXCEPT ![c] = "failed_update"]
    /\ read' = NoResponse
    /\ UNCHANGED <<now, fal_key, request, video_gen, video_url, provider, response>>

\* The inner handler: the fallback update (lines 143-153) and the return
\* (lines 155-161); an exception of the update is caught at line 163.
FallbackUpdate(c) ==
    /\ pc[c] = "fallback_update"
    /\ \E ok \in BOOLEAN :
        /\ writes' = [writes EXCEPT ![c] = Append(@, Write("fallback_update", ok))]
        /\ IF ok
           THEN /\ video_generations' =
                       UpdateOne(video_generations, video_gen[c][1].id,
                                 FallbackSet(error[c][1], now))
                /\ response' = [response EXCEPT ![c] =
                       VideoResponse(video_gen[c][1].id, request[c][1].prompt, "completed",
                                     Some(demo_video_url), video_gen[c][1].created_at)]
                /\ pc' = [pc EXCEPT ![c] = "returned"]
                /\ UNCHANGED error
           ELSE /\ error' = [error EXCEPT ![c] = Some(StoreError)]
                /\ pc' = [pc EXCEPT ![c] = "failed_update"]
                /\ UNCHANGED <<video_generations, response>>
    /\ read' = NoResponse
    /\ UNCHANGED <<now, fal_key, request, video_gen, video_url, provider>>

\* The outer handler: the failed update (lines 166-175) and the raise of
\* HTTPException(500) (line 176); an exception of the update leaves the
\* handler.
FailedUpdate(c) ==
    /\ pc[c] = "failed_update"
    /\ \E ok \in BOOLEAN :
        /\ writes' = [writes EXCEPT ![c] = Append(@, Write("failed_update", ok))]
        /\ IF ok
           THEN /\ video_generations' =
                       UpdateOne(video_generations, video_gen[c][1].id,
                                 FailedSet(error[c][1], now))
                /\ response' = [response EXCEPT ![c] = HTTPException(500, error[c][1])]
           ELSE /\ response' = [response EXCEPT ![c] = UnhandledError]
                /\ UNCHANGED video_generations
        /\ pc' = [pc EXCEPT ![c] = "raised"]
    /\ read' = NoResponse
    /\ UNCHANGED <<now, fal_key, request, video_gen, video_url, error, provider>>

\* One generate_video call takes its next step.
generate_video(c) ==
    \/ Receive(c)
    \/ Insert(c)
    \/ Sleep(c)
    \/ DemoUpdate(c)
    \/ Submit(c)
    \/ Get(c)
    \/ SuccessUpdate(c)
    \/ FallbackUpdate(c)
    \/ FailedUpdate(c)

\* GET /video/{video_id}
GetVideoStatus ==
    /\ \E video_id \in VideoIds :
          read' = [op |-> "get_video_status", video_id |-> video_id,
                   result |-> get_video_status(video_generations, video_id)]
    /\ UNCHANGED <<now, fal_key, video_generations, pc, request, video_gen, video_url,
                   error, response, provider, writes>>

\* GET /videos?limit=
GetAllVideos ==
    /\ \E limit \in LimitValues :
          \E videos \in get_all_videos(video_generations, limit) :
             read' = [op |-> "get_all_videos", limit |-> limit, result |-> videos]
    /\ UNCHANGED <<now, fal_key, video_generations, pc, request, video_gen, video_url,
                   error, response, provider, writes>>

Next ==
    \/ Tick
    \/ \E c \in Calls : generate_video(c)
    \/ GetVideoStatus
    \/ GetAllVideos

Spec == Init /\ [][Next]_vars

\* ---------------------------------------------------------------------
\* Vocabulary of the properties
\* ---------------------------------------------------------------------

Terminal == {"completed", "failed"}

\* The call has returned a response or raised.
Done(c) == pc[c] \in {"returned", "raised"}

\* The stored record of the job of call c (uuid4 gave it the id c).
Created(c) == FindOne(video_generations, c) # None
Stored(c) == FindOne(video_generations, c)[1]

\* Call c issued the write op and it raised / was applied.
Raised(c, op) == \E i \in 1..Len(writes[c]) : writes[c][i] = Write(op, FALSE)
Applied(c, op) == \E i \in 1..Len(writes[c]) : writes[c][i] = Write(op, TRUE)

ProviderFailed(c) == provider[c] \in {"submit raised", "get raised", "no url"}

\* str() of the exception the provider step of call c ended with.
ProviderErrorText(c) ==
    IF provider[c] = "submit raised" THEN FalSubmitError
    ELSE IF provider[c] = "get raised" THEN FalResultError
    ELSE NoUrlError

\* ---------------------------------------------------------------------
\* C1
\* ---------------------------------------------------------------------

\* C1 (as stated): once generate_video has returned or raised, the stored
\* record of the job it created has status completed or failed.
C1_NeverLeftProcessing ==
    \A c \in Calls :
        (Done(c) /\ Created(c)) => Stored(c).status \in Terminal

\* C1 (amended): once generate_video has returned or raised, the stored
\* record of its job is completed or failed, except when the update of the
\* outer handler that marks it failed itself raised: then, and only then,
\* the record is left processing.
C1_TerminalUnlessFailedUpdateRaised ==
    \A c \in Calls :
        (Done(c) /\ Created(c)) =>
            IF Raised(c, "failed_update")
            THEN Stored(c).status = "processing"
            ELSE Stored(c).status \in Terminal

\* A call has raised and its record was marked failed.
C1_Witness ==
    \E c \in Calls :
        pc[c] = "raised" /\ Created(c) /\ Stored(c).status = "failed"

\* ---------------------------------------------------------------------
\* C2
\* ---------------------------------------------------------------------

\* The status of the record with this id in the collection, if any.
StatusIn(coll, id) ==
    IF FindOne(coll, id) = None THEN None ELSE Some(FindOne(coll, id)[1].status)

\* C2: every record is created with status processing, and a step changes
\* the status of a record only from processing to completed or failed, so
\* a status changes at most once and a terminal status never changes.
C2_StatusChangesOnce ==
    [][\A id \in Calls :
          LET old == StatusIn(video_generations, id)
              new == StatusIn(video_generations', id)
          IN  /\ (old = None /\ new # None) => new = Some("processing")
              /\ old # None =>
                    \/ new = old
                    \/ old = Some("processing") /\ new[1] \in Terminal]_vars

\* One record is completed and another one failed.
C2_Witness ==
    \E c, d \in Calls :
        /\ Created(c) /\ Stored(c).status = "completed"
        /\ Created(d) /\ Stored(d).status = "failed"

\* ---------------------------------------------------------------------
\* C3
\* ---------------------------------------------------------------------

\* C3 (as stated): with a credential configured, when the provider call
\* raises or returns no usable URL the job ends completed with the demo
\* URL and the provider error text in error_message, and the caller gets
\* a successful response.
C3_ProviderErrorAlwaysAbsorbed ==
    \A c \in Calls :
        (Done(c) /\ ProviderFailed(c)) =>
            /\ response[c].code = 200
            /\ Stored(c).status = "completed"
            /\ Stored(c).video_url = Some(demo_video_url)
            /\ Stored(c).error_message = Some(FallbackMessage(ProviderErrorText(c)))

\* C3 (amended): with a credential configured, when the provider call
\* raises or returns no usable URL and the fallback update of the record
\* is applied, the job ends completed with the demo URL and the provider
\* error text in error_message and the caller gets a successful response;
\* the job ends otherwise than completed only when that update raised.
C3_ProviderErrorAbsorbedIfStored ==
    \A c \in Calls :
        (Done(c) /\ ProviderFailed(c)) =>
            IF Applied(c, "fallback_update")
            THEN /\ response[c] =
                        VideoResponse(c, request[c][1].prompt, "completed",
                                      Some(demo_video_url), Stored(c).created_at)
                 /\ Stored(c).status = "completed"
                 /\ Stored(c).video_url = Some(demo_video_url)
                 /\ Stored(c).error_message =
                        Some(FallbackMessage(ProviderErrorText(c)))
            ELSE /\ Raised(c, "fallback_update")
                 /\ response[c].code = 500

\* A call whose provider step failed has returned the demo video.
C3_Witness ==
    \E c \in Calls :
        /\ pc[c] = "returned" /\ ProviderFailed(c)
        /\ Stored(c).video_url = Some(demo_video_url)

\* ---------------------------------------------------------------------
\* C4
\* ---------------------------------------------------------------------

\* Call c took the demo-mode path: its record is stored and no FAL_KEY
\* is configured.
DemoPath(c) == NotFalKey(fal_key) /\ Applied(c, "insert")

\* C4 (as stated): without FAL_KEY every generate_video call ends with the
\* job completed, the demo URL and the demo-mode note; the path never ends
\* failed and never raises.
C4_DemoModeNeverFails ==
    \A c \in Calls :
        (DemoPath(c) /\ Done(c)) =>
            /\ pc[c] = "returned"
            /\ Stored(c).status = "completed"
            /\ Stored(c).video_url = Some(demo_video_url)
            /\ Stored(c).error_message = Some(DemoModeNote)

\* C4 (amended): without FAL_KEY every generate_video call whose demo
\* update is applied ends with the job completed, the demo URL and the
\* demo-mode note, and returns it; the path raises, and the job is not
\* completed, only when the demo update raised.
C4_DemoModeCompletesIfStored ==
    \A c \in Calls :
        (DemoPath(c) /\ Done(c)) =>
            IF Applied(c, "demo_update")
            THEN /\ response[c] =
                        VideoResponse(c, request[c][1].prompt, "completed",
                                      Some(demo_video_url), Stored(c).created_at)
                 /\ Stored(c).status = "completed"
                 /\ Stored(c).video_url = Some(demo_video_url)
                 /\ Stored(c).error_message = Some(DemoModeNote)
            ELSE /\ Raised(c, "demo_update")
                 /\ pc[c] = "raised"
                 /\ Stored(c).status # "completed"

\* Without FAL_KEY a call has returned the demo video.
C4_Witness ==
    \E c \in Calls :
        /\ NotFalKey(fal_key) /\ pc[c] = "returned"
        /\ Stored(c).video_url = Some(demo_video_url)

\* ---------------------------------------------------------------------
\* C5
\* ---------------------------------------------------------------------

\* C5 (as stated): with a credential configured, when the provider returns
\* a usable URL u the job ends completed with video_url u in the stored
\* record and in the response.
C5_ProviderUrlAlwaysKept ==
    \A c \in Calls :
        (Done(c) /\ provider[c] = "url") =>
            /\ Stored(c).status = "completed"
            /\ Stored(c).video_url = video_url[c]
            /\ response[c].code = 200
            /\ response[c].video_url = video_url[c]

\* C5 (amended): with a credential configured, when the provider returns
\* a usable URL u and the update that stores it is applied, the job ends
\* completed with video_url u in the stored record and in the response;
\* when that update raises, the job does not end with u.
C5_ProviderUrlKeptIfStored ==
    \A c \in Calls :
        (Done(c) /\ provider[c] = "url") =>
            IF Applied(c, "success_update")
            THEN /\ Stored(c).status = "completed"
                 /\ Stored(c).video_url = video_url[c]
                 /\ Stored(c).video_url # Some(demo_video_url)
                 /\ response[c] =
                        VideoResponse(c, request[c][1].prompt, "completed",
                                      video_url[c], Stored(c).created_at)
            ELSE /\ Raised(c, "success_update")
                 /\ Stored(c).video_url # video_url[c]

\* A call has returned the URL the provider gave.
C5_Witness ==
    \E c \in Calls :
        /\ pc[c] = "returned" /\ provider[c] = "url"
        /\ response[c].video_url = Some(ProviderUrl)

\* ---------------------------------------------------------------------
\* C6
\* ---------------------------------------------------------------------

\* Call c had one of its updates inside the try raise.
UpdateRaised(c) ==
    \/ Raised(c, "demo_update")
    \/ Raised(c, "success_update")
    \/ Raised(c, "fallback_update")

\* C6: a store-write error inside generate_video is surfaced to the caller
\* as a server-side failure and never absorbed into a completed job, and
\* the record is marked failed with the error detail (best effort: unless
\* the update that marks it failed raised as well).
C6_StoreErrorSurfaced ==
    \A c \in Calls :
        (Done(c) /\ UpdateRaised(c)) =>
            /\ pc[c] = "raised"
            /\ response[c].code = 500
            /\ Stored(c).status # "completed"
            /\ ~Raised(c, "failed_update") =>
                  /\ Stored(c).status = "failed"
                  /\ Stored(c).error_message = Some(StoreError)

\* ---------------------------------------------------------------------
\* C7
\* ---------------------------------------------------------------------

\* The request of call c is one the claim calls invalid: an empty prompt,
\* or a duration that is not a positive integer.
EmptyOrNonPositive(c) ==
    /\ request[c] # None
    /\ \/ request[c][1].prompt = ""
       \/ request[c][1].duration # None /\ request[c][1].duration[1] <= 0

\* C7: a request with an empty prompt or a non-positive duration is
\* rejected with a validation error and no job record is created for it.
C7_InvalidRequestRejected ==
    \A c \in Calls :
        EmptyOrNonPositive(c) =>
            /\ ~Created(c)
            /\ response[c] \in {Pending, ValidationRejected}

\* ---------------------------------------------------------------------
\* C8
\* ---------------------------------------------------------------------

\* created_at strictly decreases along the list.
StrictlyDescending(videos) ==
    \A i \in 1..Len(videos) :
        i < Len(videos) => videos[i].created_at > videos[i + 1].created_at

\* created_at never increases along the list.
Descending(videos) ==
    \A i \in 1..Len(videos) :
        i < Len(videos) => videos[i].created_at >= videos[i + 1].created_at

\* C8 (as stated): get_all_videos(n) returns at most n jobs (10 when no
\* limit is given), strictly ordered by created_at descending.
C8_AtMostLimitStrictlyDescending ==
    read.op = "get_all_videos" =>
        /\ Len(read.result) <= LimitOf(read.limit)
        /\ StrictlyDescending(read.result)

\* C8 (amended): get_all_videos(n) returns at most n jobs (10 when no
\* limit is given), ordered by created_at descending, where jobs created
\* at the same instant may come in either order: each job's created_at is
\* greater than or equal to the next one's.
C8_AtMostLimitDescending ==
    read.op = "get_all_videos" =>
        /\ Len(read.result) <= LimitOf(read.limit)
        /\ LimitOf(Absent) = 10
        /\ Descending(read.result)

\* get_all_videos has listed two jobs created at different instants.
C8_Witness ==
    /\ read.op = "get_all_videos"
    /\ Len(read.result) = 2
    /\ read.result[1].created_at > read.result[2].created_at

\* ---------------------------------------------------------------------
\* C9
\* ---------------------------------------------------------------------

\* C9: get_video_status answers 404 for an id no generate_video call has
\* stored and answers with the job for an id whose insert was applied.
C9_NotFoundIffNeverStored ==
    read.op = "get_video_status" =>
        IF read.video_id \in Calls /\ Applied(read.video_id, "insert")
        THEN /\ read.result.code = 200
             /\ read.result.id = read.video_id
             /\ read.result.prompt = request[read.video_id][1].prompt
        ELSE read.result = HTTPException(404, "Video not found")

\* With a job stored, get_video_status has answered 404 for another id.
C9_Witness ==
    /\ read.op = "get_video_status"
    /\ read.result.code = 404
    /\ video_generations # {}

\* ---------------------------------------------------------------------
\* C10
\* ---------------------------------------------------------------------

\* The limits that do not truncate the list of the collection.
FullLimits(coll) == {limit \in LimitValues : LimitOf(limit) >= Cardinality(coll)}

\* C10: once generate_video has returned a Job, get_video_status on the
\* returned id yields the same id, prompt, status and video_url, and the
\* job is in every get_all_videos list whose limit is at least the number
\* of stored jobs.
C10_ReturnedJobIsStored ==
    \A c \in Calls :
        pc[c] = "returned" =>
            LET job == response[c]
                got == get_video_status(video_generations, job.id)
            IN  /\ got.code = 200
                /\ got.id = job.id
                /\ got.prompt = job.prompt
                /\ got.status = job.status
                /\ got.video_url = job.video_url
                /\ \A limit \in FullLimits(video_generations) :
                      \A videos \in get_all_videos(video_generations, limit) :
                          \E i \in 1..Len(videos) : videos[i] = got

\* Two calls have returned their jobs, one of them with the provider's URL.
C10_Witness ==
    \E c, d \in Calls :
        /\ c # d /\ pc[c] = "returned" /\ pc[d] = "returned"
        /\ response[c].video_url = Some(ProviderUrl)

\* ---------------------------------------------------------------------
\* C11
\* ---------------------------------------------------------------------

UpdateOps == {"demo_update", "success_update", "fallback_update", "failed_update"}

\* The positions in the writes of call c of its inserts / of its updates.
Inserts(c) == {i \in 1..Len(writes[c]) : writes[c][i].op = "insert"}
Updates(c) == {i \in 1..Len(writes[c]) : writes[c][i].op \in UpdateOps}

\* Call c got as far as its insert: the request passed validation and the
\* VideoGeneration object was built.
Built(c) == video_gen[c] # None

\* C11 (as stated): each generate_video call issues exactly one creation
\* write and at most one terminal-update write, on every path.
C11_OneInsertAtMostOneUpdate ==
    \A c \in Calls :
        (Done(c) /\ Built(c)) =>
            /\ Cardinality(Inserts(c)) = 1
            /\ Cardinality(Updates(c)) <= 1

\* C11 (amended): each generate_video call that reaches its insert issues
\* exactly one creation write, first, and at most one of its terminal
\* updates is applied; it issues a further update only after its previous
\* update raised, at most three updates in all, and none after an applied
\* one.
C11_OneInsertOneAppliedUpdate ==
    \A c \in Calls :
        /\ (Done(c) /\ Built(c)) => Cardinality(Inserts(c)) = 1
        /\ Inserts(c) \subseteq {1}
        /\ Cardinality(Updates(c)) <= 3
        /\ Cardinality({i \in Updates(c) : writes[c][i].ok}) <= 1
        /\ \A i \in Updates(c) :
              /\ writes[c][1] = Write("insert", TRUE)
              /\ i < Len(writes[c]) => ~writes[c][i].ok

\* A call has ended after a second update, issued because the first raised.
C11_Witness ==
    \E c \in Calls :
        /\ Done(c)
        /\ Cardinality(Updates(c)) = 2
        /\ writes[c][Len(writes[c])].ok

\* ---------------------------------------------------------------------
\* C12
\* ---------------------------------------------------------------------

\* The error_message describes a failure: it is set, and it is not the
\* demo-mode note, which reports none.
DescribesFailure(error_message) ==
    error_message # None /\ error_message # Some(DemoModeNote)

\* The error_message values the fallback update writes.
FallbackMessages ==
    {Some(FallbackMessage(e)) :
        e \in {FalSubmitError, FalResultError, NoUrlError, StoreError}}

\* C12 (as stated): each record whose status is completed or failed has
\* exactly one of a video_url and an error_message describing a failure,
\* and video_url is present only on completed records.
C12_ExactlyOneOfUrlAndError ==
    \A doc \in video_generations :
        /\ doc.status \in Terminal =>
              (doc.video_url # None) # DescribesFailure(doc.error_message)
        /\ doc.video_url # None => doc.status = "completed"

\* C12 (amended): each record whose status is completed or failed has a
\* video_url or an error_message describing a failure, never neither; a
\* failed record has the error message and no video_url; a completed
\* record has a video_url and, when the fallback update wrote it, also
\* the error message of the absorbed error next to the demo URL; and
\* video_url is present only on completed records.
C12_UrlOrErrorByStatus ==
    \A doc \in video_generations :
        /\ doc.video_url # None => doc.status = "completed"
        /\ doc.status = "completed" => doc.video_url # None
        /\ doc.status = "failed" =>
              doc.video_url = None /\ DescribesFailure(doc.error_message)
        /\ (doc.video_url # None /\ DescribesFailure(doc.error_message)) =>
              /\ doc.video_url = Some(demo_video_url)
              /\ doc.error_message \in FallbackMessages

\* One record is failed, and another one was completed by the fallback
\* update.
C12_Witness ==
    \E doc, other \in video_generations :
        /\ doc.status = "failed"
        /\ other.status = "completed"
        /\ other.error_message \in FallbackMessages

\* ---------------------------------------------------------------------
\* C13
\* ---------------------------------------------------------------------

\* The fields of a record that no update names.
ImmutableFields == {"id", "prompt", "duration", "created_at"}

\* C13: under any interleaving of concurrent calls no record is removed,
\* the id, prompt, duration and created_at of a record never change after
\* its creation, and a record changes only in a step of the call that
\* created it (the call carrying its id).
C13_OwnRecordOnly ==
    [][\A id \in Calls :
          LET old == FindOne(video_generations, id)
              new == FindOne(video_generations', id)
          IN  old # None =>
                 /\ new # None
                 /\ \A f \in ImmutableFields : new[1][f] = old[1][f]
                 /\ new # old => pc'[id] # pc[id]
                 /\ Cardinality(video_generations') >= Cardinality(video_generations)]_vars

\* A call's terminal update was applied while the record of another call,
\* still in flight, was processing.
C13_Witness ==
    \E c, d \in Calls :
        /\ c # d
        /\ Created(c) /\ Stored(c).status \in Terminal
        /\ Created(d) /\ ~Done(d) /\ Stored(d).status = "processing"
        /\ Stored(d).prompt # Stored(c).prompt

====
